---- MODULE Spec2Model ----
(***************************************************************************)
(* A model of IncomeHelper.py: TaxCalculator.compute_tax and               *)
(* SalaryInvestmentProjector.project_year / run_projection.                *)
(*                                                                         *)
(* Python floats are modelled as exact rationals [n |-> numerator,         *)
(* d |-> denominator] in lowest terms with d > 0; float("inf") is the      *)
(* value with d = 0.  round(x) is Python's round-half-to-even and yields   *)
(* an integer; round(x, 2) yields a rational with two decimals.            *)
(***************************************************************************)
EXTENDS Integers, Sequences, FiniteSets, TLC

VARIABLES
    tax_calc,   \* the TaxCalculator instance: slabs, cess_rate, std_deduction
    projector,  \* the SalaryInvestmentProjector instance's own fields
    pc,         \* "idle" (no call in progress), "loop" (inside run_projection)
                \* or "raised" (an exception has left run_projection)
    frame,      \* the run_projection call in progress: its arguments and locals
    returned,   \* the completed run_projection calls: <<[args, results]>>
    taxCalls,   \* the last compute_tax calls made directly: <<[gross_yearly, tax]>>
    threads     \* run_projection calls made side by side on the one projector:
                \* per thread its pc, frame and returned results

vars == <<tax_calc, projector, pc, frame, returned, taxCalls, threads>>

-----------------------------------------------------------------------------
(* Numbers *)

Abs(i) == IF i < 0 THEN -i ELSE i

RECURSIVE GCD(_, _)
GCD(i, j) == IF j = 0 THEN i ELSE GCD(j, i % j)

\* n/d in lowest terms (d > 0)
Frac(n, d) ==
    LET g == GCD(Abs(n), d)
    IN  [n |-> n \div g, d |-> d \div g]

R(i) == [n |-> i, d |-> 1]

Zero == R(0)

One == R(1)

Inf == [n |-> 1, d |-> 0]

IsInf(u) == u.d = 0

Floor(u) == u.n \div u.d

\* a < b, on finite values or Inf
Lt(u, v) ==
    IF IsInf(u) THEN FALSE
    ELSE IF IsInf(v) THEN TRUE
    ELSE \/ Floor(u) < Floor(v)
         \/ /\ Floor(u) = Floor(v)
            /\ (u.n % u.d) * v.d < (v.n % v.d) * u.d

Le(u, v) == ~Lt(v, u)

Neg(u) == [n |-> -u.n, d |-> u.d]

Add(u, v) ==
    LET g == GCD(u.d, v.d)
        l == (u.d \div g) * v.d
    IN  Frac(u.n * (l \div u.d) + v.n * (l \div v.d), l)

Sub(u, v) == Add(u, Neg(v))

Mul(u, v) ==
    LET g1 == GCD(Abs(u.n), v.d)
        g2 == GCD(Abs(v.n), u.d)
    IN  Frac((u.n \div g1) * (v.n \div g2), (u.d \div g2) * (v.d \div g1))

\* a / b raises ZeroDivisionError
DivRaises(v) == v.n = 0

\* a / b for b # 0
Div(u, v) ==
    Mul(u, IF v.n < 0 THEN [n |-> -v.d, d |-> -v.n] ELSE [n |-> v.d, d |-> v.n])

\* Python min(a, b): b if b < a, else a
Min(u, v) == IF Lt(v, u) THEN v ELSE u

\* Python max(a, b): b if b > a, else a
Max(u, v) == IF Lt(u, v) THEN v ELSE u

\* Python round(x): nearest integer, ties to the even one
Round(u) ==
    LET q == Floor(u)
        r == u.n % u.d
    IN  IF 2 * r < u.d THEN q
        ELSE IF 2 * r > u.d THEN q + 1
        ELSE IF q % 2 = 0 THEN q ELSE q + 1

\* Python round(x, 2): x * 100 rounded to the nearest integer (ties to even),
\* over 100; the integer part of x is set aside, 100 * Floor(x) being even
Round2(u) ==
    LET q == Floor(u)
        r == u.n % u.d
    IN  Frac(100 * q + Round([n |-> 100 * r, d |-> u.d]), 100)

\* Optional[...] arguments
None == [isNone |-> TRUE]

Some(v) == [isNone |-> FALSE, val |-> v]

-----------------------------------------------------------------------------
(* class TaxCalculator *)

STD_DEDUCTION == 50000

CESS_RATE == Frac(4, 100)

SLABS == <<
    [slab_amount |-> R(400000), rate |-> Frac(0, 100)],
    [slab_amount |-> R(400000), rate |-> Frac(5, 100)],
    [slab_amount |-> R(400000), rate |-> Frac(10, 100)],
    [slab_amount |-> R(400000), rate |-> Frac(15, 100)],
    [slab_amount |-> R(400000), rate |-> Frac(20, 100)],
    [slab_amount |-> R(400000), rate |-> Frac(25, 100)],
    [slab_amount |-> Inf,       rate |-> Frac(30, 100)] >>

\* faulty variant: slabs without an unbounded last slab, negative rates and a
\* negative cess rate are rejected (ValueError)
TaxCalculatorInit_Validates(slabs, cess_rate, std_deduction) ==
    LET sl == IF ~slabs.isNone THEN slabs.val ELSE SLABS
        ce == IF ~cess_rate.isNone THEN cess_rate.val ELSE CESS_RATE
    IN  IF \/ sl = << >>
           \/ ~IsInf(sl[Len(sl)].slab_amount)
           \/ \E i \in DOMAIN sl : Lt(sl[i].rate, Zero)
           \/ Lt(ce, Zero)
        THEN [raised |-> "ValueError"]
        ELSE [slabs         |-> sl,
              cess_rate     |-> ce,
              std_deduction |-> IF ~std_deduction.isNone THEN std_deduction.val
                                ELSE R(STD_DEDUCTION)]

\* TaxCalculator.__init__
TaxCalculatorInit(slabs, cess_rate, std_deduction) ==
    [slabs         |-> IF ~slabs.isNone THEN slabs.val ELSE SLABS,
     cess_rate     |-> IF ~cess_rate.isNone THEN cess_rate.val ELSE CESS_RATE,
     std_deduction |-> IF ~std_deduction.isNone THEN std_deduction.val
                       ELSE R(STD_DEDUCTION)]

\* faulty variant: tax = take * rate instead of tax += take * rate
RECURSIVE SlabLoop_Assigns(_, _, _, _)
SlabLoop_Assigns(slabs, i, remaining, tax) ==
    IF i > Len(slabs) THEN tax
    ELSE LET take == Min(remaining, slabs[i].slab_amount)
         IN  IF Le(take, Zero) THEN tax
             ELSE SlabLoop_Assigns(slabs, i + 1, Sub(remaining, take),
                                   Mul(take, slabs[i].rate))

\* faulty variant: tax -= take * rate
RECURSIVE SlabLoop_Subtracts(_, _, _, _)
SlabLoop_Subtracts(slabs, i, remaining, tax) ==
    IF i > Len(slabs) THEN tax
    ELSE LET take == Min(remaining, slabs[i].slab_amount)
         IN  IF Le(take, Zero) THEN tax
             ELSE SlabLoop_Subtracts(slabs, i + 1, Sub(remaining, take),
                                     Sub(tax, Mul(take, slabs[i].rate)))

\* the for loop of compute_tax, from slab i on; the value is the variable tax
\* when the loop ends
RECURSIVE SlabLoop(_, _, _, _)
SlabLoop(slabs, i, remaining, tax) ==
    IF i > Len(slabs) THEN tax
    ELSE LET take == Min(remaining, slabs[i].slab_amount)
         IN  IF Le(take, Zero) THEN tax
             ELSE SlabLoop(slabs, i + 1, Sub(remaining, take),
                           Add(tax, Mul(take, slabs[i].rate)))

\* the for loop of compute_tax, from slab i on: the sum of the amounts take
\* that the passes of the loop have applied when the loop ends
RECURSIVE SlabTaken(_, _, _, _)
SlabTaken(slabs, i, remaining, taken) ==
    IF i > Len(slabs) THEN taken
    ELSE LET take == Min(remaining, slabs[i].slab_amount)
         IN  IF Le(take, Zero) THEN taken
             ELSE SlabTaken(slabs, i + 1, Sub(remaining, take), Add(taken, take))

\* faulty variant: the standard deduction is not subtracted
TaxableIncome_NoDeduction(self, gross_yearly) == Max(Zero, gross_yearly)

\* compute_tax: taxable_income
TaxableIncome(self, gross_yearly) ==
    Max(Zero, Sub(gross_yearly, self.std_deduction))

\* TaxCalculator.compute_tax
compute_tax(self, gross_yearly) ==
    LET taxable_income == TaxableIncome(self, gross_yearly)
    IN  IF Le(taxable_income, Zero) THEN Zero
        ELSE LET tax == SlabLoop(self.slabs, 1, taxable_income, Zero)
             IN  Add(tax, Mul(tax, self.cess_rate))

-----------------------------------------------------------------------------
(* class SalaryInvestmentProjector *)

SALARY_CAP == 5000000

INVEST_MONTHLY_CAP == 100000

SALARY_HIKE_RATE == Frac(5, 100)

PROF_TAX_MONTH == 200

\* SalaryInvestmentProjector.__init__ (self.tax_calc is the object in tax_calc)
ProjectorInit(salary_hike_rate, salary_cap, invest_monthly_cap) ==
    [salary_hike_rate   |-> IF ~salary_hike_rate.isNone THEN salary_hike_rate.val
                            ELSE SALARY_HIKE_RATE,
     salary_cap         |-> IF ~salary_cap.isNone THEN salary_cap.val
                            ELSE R(SALARY_CAP),
     invest_monthly_cap |-> IF ~invest_monthly_cap.isNone THEN invest_monthly_cap.val
                            ELSE R(INVEST_MONTHLY_CAP)]

\* float(x) of a Python int
Float(i) == R(i)

\* faulty variant: the cap is not applied
MonthlyInvestmentCapped_NoCap(self, monthly_investment) == monthly_investment

\* project_year: monthly_investment_capped
MonthlyInvestmentCapped(self, monthly_investment) ==
    Min(monthly_investment, self.invest_monthly_cap)

\* project_year: invest_percentage
InvestPercentage(monthly_investment_capped, net_monthly) ==
    IF Lt(Zero, net_monthly)
    THEN Mul(Div(monthly_investment_capped, net_monthly), R(100))
    ELSE Zero

\* faulty variant: the year's contribution is added after the growth
Compound_ContributionAfterGrowth(cumulative_in, total_invest_yearly, expected_return) ==
    Add(Mul(cumulative_in, Add(One, Div(expected_return, R(100)))),
        total_invest_yearly)

\* faulty variant: the return rate is taken off
Compound_Discounts(cumulative_in, total_invest_yearly, expected_return) ==
    Mul(Add(cumulative_in, total_invest_yearly),
        Sub(One, Div(expected_return, R(100))))

\* project_year: the compounded cumulative_return
Compound(cumulative_in, total_invest_yearly, expected_return) ==
    Mul(Add(cumulative_in, total_invest_yearly),
        Add(One, Div(expected_return, R(100))))

\* faulty variant: the year's investment is subtracted
RunningTotal_Subtracts(running_total_in, total_invest_yearly) ==
    Sub(running_total_in, total_invest_yearly)

\* project_year: running_invest_total += total_invest_yearly
RunningTotal(running_total_in, total_invest_yearly) ==
    Add(running_total_in, total_invest_yearly)

\* project_year: return_percentage
ReturnPercentage(cumulative, running_total) ==
    IF Lt(Zero, running_total)
    THEN Mul(Div(Sub(cumulative, running_total), running_total), R(100))
    ELSE Zero

\* faulty variant: the guard of invest_percentage is net_monthly >= 0
InvestPercentageRaises_GuardAdmitsZero(net_monthly) ==
    Le(Zero, net_monthly) /\ DivRaises(net_monthly)

\* project_year: the division of invest_percentage is run and raises
InvestPercentageRaises(net_monthly) ==
    Lt(Zero, net_monthly) /\ DivRaises(net_monthly)

\* project_year: the division of return_percentage is run and raises
ReturnPercentageRaises(running_total) ==
    Lt(Zero, running_total) /\ DivRaises(running_total)

\* faulty variant: "High" from 40 on
Remarks_FromForty(invest_percentage) ==
    IF Le(R(40), invest_percentage) THEN "High" ELSE "Good"

\* project_year: remarks
Remarks(invest_percentage) ==
    IF Lt(R(40), invest_percentage) THEN "High" ELSE "Good"

\* SalaryInvestmentProjector.project_year; the value is the returned tuple
project_year(self, gross_yearly, monthly_investment, other_deductions, running_total_in, cumulative_in, expected_return) ==
    LET basic == Mul(Frac(40, 100), gross_yearly)
        emp_pf == Mul(Frac(12, 100), basic)
        employer_pf == Mul(Frac(12, 100), basic)
        prof_tax_yearly == R(PROF_TAX_MONTH * 12)
        tax_yearly == compute_tax(tax_calc, gross_yearly)
        common_ded_yearly == Add(Add(emp_pf, employer_pf), prof_tax_yearly)
        common_ded_month == Div(common_ded_yearly, R(12))
        net_salary_yearly == Sub(gross_yearly, tax_yearly)
        net_monthly == Div(net_salary_yearly, R(12))
        gross_monthly == Div(gross_yearly, R(12))
        tax_monthly == Div(tax_yearly, R(12))
        monthly_investment_capped == MonthlyInvestmentCapped(self, monthly_investment)
        salary_left_month ==
            Sub(Sub(Sub(net_monthly, monthly_investment_capped), common_ded_month),
                other_deductions)
        invest_percentage == InvestPercentage(monthly_investment_capped, net_monthly)
        total_invest_yearly == Mul(monthly_investment_capped, R(12))
        running_total == RunningTotal(running_total_in, total_invest_yearly)
        cumulative == Compound(cumulative_in, total_invest_yearly, expected_return)
        return_percentage == ReturnPercentage(cumulative, running_total)
        remarks == Remarks(invest_percentage)
        result ==
            [year                 |-> 0,
             gross_yearly         |-> Round(gross_yearly),
             gross_monthly        |-> Round(gross_monthly),
             tax_yearly           |-> Round(tax_yearly),
             tax_monthly          |-> Round(tax_monthly),
             net_salary_yearly    |-> Round(net_salary_yearly),
             net_monthly          |-> Round(net_monthly),
             common_ded_month     |-> Round(common_ded_month),
             other_deductions     |-> Round(other_deductions),
             total_invest_yearly  |-> Round(total_invest_yearly),
             monthly_investment   |-> Round(monthly_investment_capped),
             salary_left_month    |-> Round(salary_left_month),
             invest_percentage    |-> Round2(invest_percentage),
             remarks              |-> remarks,
             running_invest_total |-> Round(running_total),
             cumulative_return    |-> Round(cumulative),
             return_percentage    |-> Round2(return_percentage)]
    IN  <<result, running_total, cumulative>>

\* project_year raises (ZeroDivisionError) instead of returning
project_year_raises(self, gross_yearly, monthly_investment, running_total_in) ==
    LET net_monthly ==
            Div(Sub(gross_yearly, compute_tax(tax_calc, gross_yearly)), R(12))
        total_invest_yearly ==
            Mul(MonthlyInvestmentCapped(self, monthly_investment), R(12))
    IN  \/ InvestPercentageRaises(net_monthly)
        \/ ReturnPercentageRaises(RunningTotal(running_total_in, total_invest_yearly))

\* run_projection: the salary of the next year
NextGross(self, gross) ==
    Min(Mul(gross, Add(One, self.salary_hike_rate)), R(SALARY_CAP))

\* run_projection: the monthly investment of the next year
NextMonthlyInvest(self, monthly_invest, invest_hike_percent) ==
    Min(Mul(monthly_invest, Add(One, Div(invest_hike_percent, R(100)))),
        self.invest_monthly_cap)

\* faulty variant: range(1, years)
InRange_StopsEarly(y, years) == 1 <= y /\ y < years

\* run_projection: y in range(1, years + 1)
InRange(y, years) == 1 <= y /\ y < years + 1

\* faulty variant: the list of results is the one the call before returned
NewFrame_SharedResults(a) ==
    [args                 |-> a,
     results              |-> IF returned # << >>
                              THEN returned[Len(returned)].results
                              ELSE << >>,
     gross                |-> Float(a.start_gross),
     monthly_invest       |-> Float(a.start_monthly_investment),
     running_invest_total |-> Zero,
     cumulative_return    |-> Zero,
     y                    |-> 1]

\* run_projection: the locals before the loop
NewFrame(a) ==
    [args                 |-> a,
     results              |-> << >>,
     gross                |-> Float(a.start_gross),
     monthly_invest       |-> Float(a.start_monthly_investment),
     running_invest_total |-> Zero,
     cumulative_return    |-> Zero,
     y                    |-> 1]

\* faulty variant: the totals carried to the next year are the rounded values
\* of the record
LoopBody_CarriesRounded(self, f) ==
    LET t == project_year(self, f.gross, f.monthly_invest, f.args.other_deductions,
                          f.running_invest_total, f.cumulative_return,
                          f.args.expected_return)
        res == [t[1] EXCEPT !.year = f.y]
    IN  [f EXCEPT !.running_invest_total = R(res.running_invest_total),
                  !.cumulative_return = R(res.cumulative_return),
                  !.results = Append(@, res),
                  !.gross = NextGross(self, f.gross),
                  !.monthly_invest =
                      NextMonthlyInvest(self, f.monthly_invest,
                                        f.args.invest_hike_percent),
                  !.y = f.y + 1]

\* run_projection: one pass of the loop body
LoopBody(self, f) ==
    LET t == project_year(self, f.gross, f.monthly_invest, f.args.other_deductions,
                          f.running_invest_total, f.cumulative_return,
                          f.args.expected_return)
        res == [t[1] EXCEPT !.year = f.y]
    IN  [f EXCEPT !.running_invest_total = t[2],
                  !.cumulative_return = t[3],
                  !.results = Append(@, res),
                  !.gross = NextGross(self, f.gross),
                  !.monthly_invest =
                      NextMonthlyInvest(self, f.monthly_invest,
                                        f.args.invest_hike_percent),
                  !.y = f.y + 1]

-----------------------------------------------------------------------------
(* Bounds and inputs *)

MaxYears == 3

MaxCalls == 2

MaxTaxCalls == 2

SmallSlabs == <<
    [slab_amount |-> R(100), rate |-> Frac(10, 100)],
    [slab_amount |-> R(200), rate |-> Frac(20, 100)],
    [slab_amount |-> Inf,    rate |-> Frac(30, 100)] >>

ZeroWidthSlabs == <<
    [slab_amount |-> R(0),   rate |-> Frac(0, 100)],
    [slab_amount |-> R(100), rate |-> Frac(10, 100)],
    [slab_amount |-> Inf,    rate |-> Frac(30, 100)] >>

FiniteSlabs == <<
    [slab_amount |-> R(100), rate |-> Frac(10, 100)],
    [slab_amount |-> R(100), rate |-> Frac(20, 100)] >>

NegativeRateSlabs == <<
    [slab_amount |-> R(100), rate |-> Frac(10, 100)],
    [slab_amount |-> Inf,    rate |-> Frac(-10, 100)] >>

\* the calculators whose compute_tax is called directly
TaxCalculators ==
    { TaxCalculatorInit(s, c, d) :
        s \in {None, Some(SmallSlabs), Some(ZeroWidthSlabs), Some(FiniteSlabs),
               Some(NegativeRateSlabs)},
        c \in {None, Some(Zero), Some(Frac(-1, 2))},
        d \in {None, Some(R(100))} }

TaxGrossInputs ==
    { R(g) : g \in {-100, 0, 100, 150, 200, 300, 400, 50000, 50100, 50300,
                    450000, 850000, 1000000, 2450000} }

\* the calculators handed to a projector
ProjectorTaxCalculators ==
    { TaxCalculatorInit(None, None, None),
      TaxCalculatorInit(Some(FiniteSlabs), Some(Frac(-1, 2)), Some(R(100))) }

Projectors ==
    { ProjectorInit(None, None, i) :
        i \in {None, Some(R(21000)), Some(Frac(7, 2)), Some(R(-100))} }
    \cup { ProjectorInit(None, Some(R(1000000)), None),
           ProjectorInit(Some(Frac(-1, 2)), None, None) }

\* the single-year scenario of the documentation
ScenarioArgs ==
    [start_gross              |-> 1200000,
     years                    |-> 1,
     start_monthly_investment |-> 20000,
     invest_hike_percent      |-> R(10),
     expected_return          |-> R(12),
     other_deductions         |-> Zero]

\* single-year runs investing exactly 40% (15000 of 37500) and just above
\* 40% (15001 of 37500) of the net monthly income under the default slabs
ThresholdArgs ==
    { [start_gross              |-> 450000,
       years                    |-> 1,
       start_monthly_investment |-> m,
       invest_hike_percent      |-> Zero,
       expected_return          |-> Zero,
       other_deductions         |-> Zero] : m \in {15000, 15001} }

RunArgs ==
    [start_gross              : {-60000, 0, 990000, 4800000},
     years                    : -1 .. MaxYears,
     start_monthly_investment : {-1000, 0, 20000, 150000},
     invest_hike_percent      : {R(-200), Zero, R(10)},
     expected_return          : {R(-50), Zero, R(25)},
     other_deductions         : {R(5000)}]
    \cup {ScenarioArgs} \cup ThresholdArgs

-----------------------------------------------------------------------------
(* The projector in use: run_projection called, run and called again *)

Init ==
    /\ tax_calc \in ProjectorTaxCalculators
    /\ projector \in Projectors
    /\ pc = "idle"
    /\ frame = None
    /\ returned = << >>
    /\ taxCalls = << >>
    /\ threads = << >>

\* run_projection is entered.  A repeated call repeats the arguments of the
\* call before it.
CallRunProjection(a) ==
    /\ pc = "idle"
    /\ Len(returned) < MaxCalls
    /\ returned # << >> => a = returned[Len(returned)].args
    /\ frame' = NewFrame(a)
    /\ pc' = "loop"
    /\ UNCHANGED <<tax_calc, projector, returned, taxCalls, threads>>

\* one pass of the for loop; an exception of project_year leaves the call
LoopIteration ==
    /\ pc = "loop"
    /\ InRange(frame.y, frame.args.years)
    /\ IF project_year_raises(projector, frame.gross, frame.monthly_invest,
                              frame.running_invest_total)
       THEN pc' = "raised" /\ frame' = None
       ELSE pc' = pc /\ frame' = LoopBody(projector, frame)
    /\ UNCHANGED <<tax_calc, projector, returned, taxCalls, threads>>

\* the loop is exhausted: return results
Return ==
    /\ pc = "loop"
    /\ ~InRange(frame.y, frame.args.years)
    /\ returned' = Append(returned, [args |-> frame.args, results |-> frame.results])
    /\ frame' = None
    /\ pc' = "idle"
    /\ UNCHANGED <<tax_calc, projector, taxCalls, threads>>

Next ==
    \/ \E a \in RunArgs : CallRunProjection(a)
    \/ LoopIteration
    \/ Return

Spec == Init /\ [][Next]_vars

-----------------------------------------------------------------------------
(* A calculator in use: compute_tax called directly *)

InitTax ==
    /\ tax_calc \in TaxCalculators
    /\ projector = ProjectorInit(None, None, None)
    /\ pc = "idle"
    /\ frame = None
    /\ returned = << >>
    /\ taxCalls = << >>
    /\ threads = << >>

\* compute_tax(gross_yearly) is called and returns; the last MaxTaxCalls calls
\* are kept
ComputeTaxCall(gross_yearly) ==
    /\ pc = "idle"
    /\ LET call == [gross_yearly |-> gross_yearly,
                    tax          |-> compute_tax(tax_calc, gross_yearly),
                    taken        |-> SlabTaken(tax_calc.slabs, 1,
                                        TaxableIncome(tax_calc, gross_yearly),
                                        Zero)]
           all == Append(taxCalls, call)
       IN  taxCalls' = IF Len(all) > MaxTaxCalls THEN Tail(all) ELSE all
    /\ UNCHANGED <<tax_calc, projector, pc, frame, returned, threads>>

NextTax == \E g \in TaxGrossInputs : ComputeTaxCall(g)

SpecTax == InitTax /\ [][NextTax]_vars

-----------------------------------------------------------------------------
(* Properties of run_projection, checked under Spec *)

\* every call of run_projection with the records it has produced so far: the
\* completed calls and the call in progress
Runs ==
    { [args |-> returned[i].args, results |-> returned[i].results] :
        i \in DOMAIN returned }
    \cup (IF pc = "loop"
          THEN {[args |-> frame.args, results |-> frame.results]}
          ELSE {})

\* C1: every yearly record of every run has a gross yearly salary less than or
\* equal to the projector's configured salary cap (self.salary_cap).
C1_GrossWithinConfiguredCap ==
    \A run \in Runs : \A i \in DOMAIN run.results :
        Le(R(run.results[i].gross_yearly), projector.salary_cap)

\* C2 as stated: the monthly investment reported in every yearly record is
\* less than or equal to the configured monthly investment cap.
C2_ReportedWithinCap ==
    \A run \in Runs : \A i \in DOMAIN run.results :
        Le(R(run.results[i].monthly_investment), projector.invest_monthly_cap)

\* C2 amended: the unrounded amounts invested stay within the cap (after k
\* years the running total is at most 12 * k * cap), and the reported, rounded
\* figures are within the rounded cap: monthly_investment <= round(cap) and
\* total_invest_yearly <= round(12 * cap).
C2_InvestmentWithinCap ==
    /\ \A run \in Runs : \A i \in DOMAIN run.results :
        /\ run.results[i].monthly_investment <= Round(projector.invest_monthly_cap)
        /\ run.results[i].total_invest_yearly
             <= Round(Mul(projector.invest_monthly_cap, R(12)))
    /\ pc = "loop" =>
        Le(frame.running_invest_total,
           Mul(projector.invest_monthly_cap, R(12 * Len(frame.results))))

\* C2 witness: a year whose requested monthly investment is above the cap has
\* been recorded with the cap as its monthly investment.
C2_Witness ==
    /\ pc = "loop"
    /\ Len(frame.results) = 1
    /\ Lt(projector.invest_monthly_cap, Float(frame.args.start_monthly_investment))
    /\ frame.results[1].monthly_investment = Round(projector.invest_monthly_cap)
    /\ Lt(Zero, projector.invest_monthly_cap)

\* C3 as stated: in a run whose starting monthly investment is non-negative,
\* running_invest_total does not decrease from one year to the next.
C3_RunningTotalMonotoneFromStart ==
    \A run \in Runs :
        run.args.start_monthly_investment >= 0 =>
            \A i \in DOMAIN run.results :
                i + 1 \in DOMAIN run.results =>
                    run.results[i + 1].running_invest_total
                        >= run.results[i].running_invest_total

\* C3 amended: in a run whose starting monthly investment is non-negative,
\* whose investment hike percent is at least -100 and whose monthly investment
\* cap is non-negative, running_invest_total does not decrease from one year
\* to the next.
C3_RunningTotalMonotone ==
    \A run \in Runs :
        ( /\ run.args.start_monthly_investment >= 0
          /\ Le(R(-100), run.args.invest_hike_percent)
          /\ Le(Zero, projector.invest_monthly_cap) ) =>
            \A i \in DOMAIN run.results :
                i + 1 \in DOMAIN run.results =>
                    run.results[i + 1].running_invest_total
                        >= run.results[i].running_invest_total

\* C3 witness: a run within the amended conditions has recorded three years
\* with a growing running total.
C3_Witness ==
    \E run \in Runs :
        /\ run.args.start_monthly_investment > 0
        /\ Le(R(-100), run.args.invest_hike_percent)
        /\ Le(Zero, projector.invest_monthly_cap)
        /\ Len(run.results) >= 3
        /\ run.results[3].running_invest_total > run.results[2].running_invest_total
        /\ run.results[2].running_invest_total > run.results[1].running_invest_total

\* C8 as stated: the one record of a single-year run with a positive starting
\* monthly investment m has total_invest_yearly = 12 * min(m, cap),
\* running_invest_total the same, cumulative_return = total_invest_yearly *
\* (1 + expected_return / 100) and return_percentage = expected_return.
C8_SingleYearExact ==
    \A run \in Runs :
        ( /\ run.args.years = 1
          /\ run.args.start_monthly_investment > 0
          /\ Len(run.results) = 1 ) =>
            LET rec == run.results[1]
                total == Mul(Min(Float(run.args.start_monthly_investment),
                                 projector.invest_monthly_cap), R(12))
            IN  /\ R(rec.total_invest_yearly) = total
                /\ R(rec.running_invest_total) = total
                /\ R(rec.cumulative_return)
                     = Mul(R(rec.total_invest_yearly),
                           Add(One, Div(run.args.expected_return, R(100))))
                /\ rec.return_percentage = run.args.expected_return

\* C8 amended: the one record of a single-year run with a positive starting
\* monthly investment m has total_invest_yearly = round(12 * min(m, cap)),
\* running_invest_total the same, cumulative_return = round(12 * min(m, cap) *
\* (1 + expected_return / 100)), and return_percentage =
\* round(expected_return, 2) when min(m, cap) > 0 and 0 otherwise; m = 20000
\* and rate 12 under the default cap give 240000, 240000, 268800 and 12.
C8_SingleYear ==
    \A run \in Runs :
        ( /\ run.args.years = 1
          /\ run.args.start_monthly_investment > 0
          /\ Len(run.results) = 1 ) =>
            LET rec == run.results[1]
                capped == Min(Float(run.args.start_monthly_investment),
                              projector.invest_monthly_cap)
                total == Mul(capped, R(12))
            IN  /\ rec.total_invest_yearly = Round(total)
                /\ rec.running_invest_total = Round(total)
                /\ rec.cumulative_return
                     = Round(Mul(total,
                                 Add(One, Div(run.args.expected_return, R(100)))))
                /\ rec.return_percentage =
                     IF Lt(Zero, capped) THEN Round2(run.args.expected_return)
                     ELSE Zero
                /\ ( /\ run.args = ScenarioArgs
                     /\ projector.invest_monthly_cap = R(INVEST_MONTHLY_CAP) ) =>
                        /\ rec.total_invest_yearly = 240000
                        /\ rec.running_invest_total = 240000
                        /\ rec.cumulative_return = 268800
                        /\ rec.return_percentage = R(12)

\* C8 witness: the documented single-year scenario has returned its record.
C8_Witness ==
    /\ projector.invest_monthly_cap = R(INVEST_MONTHLY_CAP)
    /\ \E i \in DOMAIN returned :
        /\ returned[i].args = ScenarioArgs
        /\ Len(returned[i].results) = 1
        /\ returned[i].results[1].cumulative_return = 268800

\* C9: run_projection returns exactly max(0, years) records, the i-th carrying
\* year index i; for years <= 0 it returns the empty list.  (While the call is
\* running, the records so far are those of the years 1 .. y - 1.)
C9_OneRecordPerYear ==
    /\ \A c \in DOMAIN returned :
        /\ Len(returned[c].results)
             = IF returned[c].args.years > 0 THEN returned[c].args.years ELSE 0
        /\ \A i \in DOMAIN returned[c].results : returned[c].results[i].year = i
    /\ pc = "loop" =>
        /\ Len(frame.results) = frame.y - 1
        /\ frame.y - 1 <= (IF frame.args.years > 0 THEN frame.args.years ELSE 0)
        /\ \A i \in DOMAIN frame.results : frame.results[i].year = i

\* C9 witness: a call for MaxYears years and a call for no years have returned.
C9_Witness ==
    \E c \in DOMAIN returned :
        /\ returned[c].args.years >= 2
        /\ Len(returned[c].results) = returned[c].args.years
        /\ returned[c].results[2].year = 2

\* C9 witness for years <= 0: the call has returned the empty list.
C9_WitnessNoYears ==
    \E c \in DOMAIN returned :
        returned[c].args.years < 0 /\ returned[c].results = << >>

\* C10: two calls of run_projection on the same projector with identical
\* arguments return identical lists of records.
C10_RepeatedCallSameOutput ==
    \A c1, c2 \in DOMAIN returned :
        returned[c1].args = returned[c2].args =>
            returned[c1].results = returned[c2].results

\* C10 witness: the same projector has returned twice for the same arguments,
\* with records of several years.
C10_Witness ==
    /\ Len(returned) >= 2
    /\ returned[1].args = returned[2].args
    /\ Len(returned[2].results) >= 2

-----------------------------------------------------------------------------
(* Two calls of run_projection in flight on one projector and one calculator *)

\* the two callers
Threads == 1..2

\* the arguments the concurrent callers choose among
ParArgs ==
    { a \in RunArgs :
        /\ a.start_gross = 990000
        /\ a.start_monthly_investment \in {20000, 150000}
        /\ a.invest_hike_percent = R(10)
        /\ a.expected_return = R(25)
        /\ a.years \in {0, 2, MaxYears} }

InitPar ==
    /\ tax_calc \in ProjectorTaxCalculators
    /\ projector \in Projectors
    /\ pc = "idle"
    /\ frame = None
    /\ returned = << >>
    /\ taxCalls = << >>
    /\ threads = [t \in Threads |-> [pc |-> "idle", frame |-> None, results |-> << >>]]

\* faulty variant: the running totals are kept where both calls see them, a
\* call continues from the totals the other call has reached
ThreadLocals_Shared(t) ==
    LET o == 3 - t
    IN  IF threads[o].pc = "loop"
        THEN [threads[t].frame EXCEPT
                !.running_invest_total = threads[o].frame.running_invest_total,
                !.cumulative_return    = threads[o].frame.cumulative_return]
        ELSE threads[t].frame

\* run_projection: results, gross, monthly_invest, running_invest_total,
\* cumulative_return and y are locals of the call
ThreadLocals(t) == threads[t].frame

\* caller t enters run_projection
ThreadCall(t, a) ==
    /\ threads[t].pc = "idle"
    /\ threads' = [threads EXCEPT ![t].pc = "loop", ![t].frame = NewFrame(a)]
    /\ UNCHANGED <<tax_calc, projector, pc, frame, returned, taxCalls>>

\* caller t makes one pass of the for loop: self is read, never written
ThreadLoopIteration(t) ==
    /\ threads[t].pc = "loop"
    /\ InRange(ThreadLocals(t).y, ThreadLocals(t).args.years)
    /\ IF project_year_raises(projector, ThreadLocals(t).gross,
                              ThreadLocals(t).monthly_invest,
                              ThreadLocals(t).running_invest_total)
       THEN threads' = [threads EXCEPT ![t].pc = "raised"]
       ELSE threads' = [threads EXCEPT ![t].frame = LoopBody(projector, ThreadLocals(t))]
    /\ UNCHANGED <<tax_calc, projector, pc, frame, returned, taxCalls>>

\* caller t leaves the loop and returns results
ThreadReturn(t) ==
    /\ threads[t].pc = "loop"
    /\ ~InRange(ThreadLocals(t).y, ThreadLocals(t).args.years)
    /\ threads' = [threads EXCEPT ![t].pc = "done",
                                  ![t].results = ThreadLocals(t).results]
    /\ UNCHANGED <<tax_calc, projector, pc, frame, returned, taxCalls>>

NextPar ==
    \E t \in Threads :
        \/ \E a \in ParArgs : ThreadCall(t, a)
        \/ ThreadLoopIteration(t)
        \/ ThreadReturn(t)

SpecPar == InitPar /\ [][NextPar]_vars

\* the locals of a call that runs alone, after n passes of its loop
RECURSIVE FrameAlone(_, _, _)
FrameAlone(self, a, n) ==
    IF n = 0 THEN NewFrame(a) ELSE LoopBody(self, FrameAlone(self, a, n - 1))

\* C12: however the yearly steps of two calls on one projector and one
\* calculator interleave, each call is at every step where it would be when
\* run alone, and returns the records it returns when run alone.
C12_InterleavedRunsAsAlone ==
    \A t \in Threads :
        /\ threads[t].pc # "raised"
        /\ threads[t].pc \in {"loop", "done"} =>
             threads[t].frame =
               FrameAlone(projector, threads[t].frame.args, threads[t].frame.y - 1)
        /\ threads[t].pc = "done" =>
             LET a == threads[t].frame.args
             IN  threads[t].results =
                   FrameAlone(projector, a, IF a.years > 0 THEN a.years ELSE 0).results

\* C12 witness: one call has returned the records of all its years while the
\* other call, with different arguments and different running totals, is
\* between its first and its second year.
C12_Witness ==
    /\ threads[1].pc = "done"
    /\ Len(threads[1].results) = MaxYears
    /\ threads[2].pc = "loop"
    /\ threads[2].frame.y = 2
    /\ threads[2].frame.args # threads[1].frame.args
    /\ threads[2].frame.running_invest_total # threads[1].frame.running_invest_total

\* the configuration of the calculator is invalid: the last slab is not
\* unbounded, or a slab rate or the cess rate is negative
InvalidTaxConfiguration ==
    \/ tax_calc.slabs = << >>
    \/ ~IsInf(tax_calc.slabs[Len(tax_calc.slabs)].slab_amount)
    \/ \E i \in DOMAIN tax_calc.slabs : Lt(tax_calc.slabs[i].rate, Zero)
    \/ Lt(tax_calc.cess_rate, Zero)

\* C11 as stated: an invalid configuration is rejected before any yearly
\* record is computed: no run under an invalid calculator has a record, and no
\* call with years <= 0 returns a result.
C11_InvalidConfigurationRejected ==
    /\ InvalidTaxConfiguration => \A run \in Runs : run.results = << >>
    /\ \A c \in DOMAIN returned : returned[c].args.years >= 1

\* C11 amended: nothing is validated.  The constructors accept every
\* configuration (the objects are built, with the fields as given), and a run
\* under an invalid calculator, never raising, produces a record for each of
\* its years; a call with years <= 0 returns the empty list.
C11_InvalidConfigurationAccepted ==
    /\ DOMAIN tax_calc = {"slabs", "cess_rate", "std_deduction"}
    /\ DOMAIN projector = {"salary_hike_rate", "salary_cap", "invest_monthly_cap"}
    /\ pc # "raised"
    /\ InvalidTaxConfiguration =>
        /\ pc = "loop" => Len(frame.results) = frame.y - 1
        /\ \A c \in DOMAIN returned :
            /\ returned[c].args.years >= 1 =>
                 Len(returned[c].results) = returned[c].args.years
            /\ returned[c].args.years <= 0 => returned[c].results = << >>

\* C11 witness: under a calculator with a finite last slab and a negative cess
\* rate, a run of several years has returned all its records.
C11_Witness ==
    /\ InvalidTaxConfiguration
    /\ \E c \in DOMAIN returned :
        /\ returned[c].args.years >= 2
        /\ Len(returned[c].results) = returned[c].args.years
        /\ returned[c].results[1].tax_yearly > 0

\* the investing of the first n years of a run with arguments a, one entry a
\* year, in exact arithmetic: the monthly investment of the year (raised by the
\* hike percent from the year before, up to the monthly cap), the amount
\* invested in the year (twelve times the monthly investment, limited to the
\* cap), the sum of the amounts invested so far, and
\* cumulative[j] = (cumulative[j-1] + totalInvested[j]) x (1 + rate/100),
\* cumulative[0] = 0
RECURSIVE Recurrence(_, _, _)
Recurrence(self, a, n) ==
    IF n = 0 THEN << >>
    ELSE LET before == Recurrence(self, a, n - 1)
             monthly ==
                 IF n = 1 THEN R(a.start_monthly_investment)
                 ELSE Min(Mul(before[n - 1].monthly,
                              Add(One, Div(a.invest_hike_percent, R(100)))),
                          self.invest_monthly_cap)
             totalInvested == Mul(Min(monthly, self.invest_monthly_cap), R(12))
             invested == IF n = 1 THEN Zero ELSE before[n - 1].invested
             cumulative == IF n = 1 THEN Zero ELSE before[n - 1].cumulative
         IN  Append(before,
                    [monthly       |-> monthly,
                     totalInvested |-> totalInvested,
                     invested      |-> Add(invested, totalInvested),
                     cumulative    |-> Mul(Add(cumulative, totalInvested),
                                           Add(One, Div(a.expected_return, R(100))))])

\* C15: after j years of a run the cumulative value and the running invested
\* total carried to the next year are the exact (unrounded) values of the
\* recurrence cumulative[j] = (cumulative[j-1] + totalInvested[j]) x (1 + r/100),
\* cumulative[0] = 0, and the record of year j shows these values rounded.
C15_CompoundingCarriesUnrounded ==
    /\ pc = "loop" =>
        LET rec == Recurrence(projector, frame.args, frame.y - 1)
        IN  /\ frame.cumulative_return
                 = IF frame.y = 1 THEN Zero ELSE rec[frame.y - 1].cumulative
            /\ frame.running_invest_total
                 = IF frame.y = 1 THEN Zero ELSE rec[frame.y - 1].invested
    /\ \A run \in Runs :
        LET rec == Recurrence(projector, run.args, Len(run.results))
        IN  \A j \in DOMAIN run.results :
              /\ run.results[j].cumulative_return = Round(rec[j].cumulative)
              /\ run.results[j].running_invest_total = Round(rec[j].invested)
              /\ run.results[j].total_invest_yearly = Round(rec[j].totalInvested)

\* C15 witness: a run has passed two years, the value carried out of its first
\* year was not a whole number (the record showed it rounded), and the second
\* record shows the value compounded from the unrounded one, which differs from
\* the value compounded from the rounded one.
C15_Witness ==
    /\ pc = "loop"
    /\ frame.y >= 3
    /\ LET rec == Recurrence(projector, frame.args, 2)
       IN  /\ rec[1].cumulative.d # 1
           /\ frame.results[2].cumulative_return
                # Round(Mul(Add(R(frame.results[1].cumulative_return),
                                rec[2].totalInvested),
                            Add(One, Div(frame.args.expected_return, R(100)))))

\* C16: a call of project_year never raises, whatever the sign of the gross
\* salary and of the investment: it returns a record whose invest_percentage
\* is 0 when the net monthly income is <= 0 and capped investment / net
\* monthly x 100 otherwise, and whose return_percentage is 0 when the updated
\* running invested total is <= 0 and (cumulative - running) / running x 100
\* otherwise (both shown to two decimals).
C16_ProjectYearTotal ==
    [][ (pc = "loop" /\ InRange(frame.y, frame.args.years))
        => /\ pc' = "loop"
           /\ LET rec == frame'.results[Len(frame'.results)]
                  net == Div(Sub(frame.gross, compute_tax(tax_calc, frame.gross)),
                             R(12))
                  capped == Min(frame.monthly_invest, projector.invest_monthly_cap)
                  running == frame'.running_invest_total
                  cumulative == frame'.cumulative_return
              IN  /\ rec.invest_percentage
                       = IF Le(net, Zero) THEN Zero
                         ELSE Round2(Mul(Div(capped, net), R(100)))
                  /\ rec.return_percentage
                       = IF Le(running, Zero) THEN Zero
                         ELSE Round2(Mul(Div(Sub(cumulative, running), running),
                                         R(100)))
      ]_vars

\* C16 witness: project_year has returned the record of a year with gross
\* salary 0 and nothing invested: the net monthly income and the updated
\* running total are 0, the divisors of both percentages, and both
\* percentages are 0.
C16_Witness ==
    \E run \in Runs :
        /\ run.args.start_gross = 0
        /\ run.args.start_monthly_investment = 0
        /\ run.results # << >>
        /\ run.results[1].net_monthly = 0
        /\ run.results[1].running_invest_total = 0
        /\ run.results[1].invest_percentage = Zero
        /\ run.results[1].return_percentage = Zero

\* C17 as stated: in every record the remark is "High" if the
\* invest_percentage of that record is greater than 40 and "Good" otherwise.
C17_RemarkAgreesWithRecord ==
    \A run \in Runs : \A j \in DOMAIN run.results :
        run.results[j].remarks
          = IF Lt(R(40), run.results[j].invest_percentage) THEN "High" ELSE "Good"

\* C17 amended: the remark of a year's record is "High" if the unrounded
\* investment percentage of that year (0 when the net monthly income is <= 0)
\* is greater than 40 and "Good" otherwise; the invest_percentage of the
\* record is that percentage rounded to two decimals, so a record showing
\* more than 40 says "High" and a record showing less than 40 says "Good".
C17_RemarkFromUnroundedPercentage ==
    [][ (pc = "loop" /\ pc' = "loop" /\ frame'.y = frame.y + 1)
        => LET rec == frame'.results[Len(frame'.results)]
               net == Div(Sub(frame.gross, compute_tax(tax_calc, frame.gross)),
                          R(12))
               capped == Min(frame.monthly_invest, projector.invest_monthly_cap)
               percentage == IF Le(net, Zero) THEN Zero
                             ELSE Mul(Div(capped, net), R(100))
           IN  /\ rec.remarks = IF Lt(R(40), percentage) THEN "High" ELSE "Good"
               /\ rec.invest_percentage = Round2(percentage)
               /\ Lt(R(40), rec.invest_percentage) => rec.remarks = "High"
               /\ Lt(rec.invest_percentage, R(40)) => rec.remarks = "Good"
      ]_vars

\* C17 witness: a record shows an invest_percentage of exactly 40.0 with the
\* remark "High" (15001 a month out of a net monthly income of 37500).
C17_Witness ==
    \E run \in Runs :
        /\ run.results # << >>
        /\ run.results[1].invest_percentage = R(40)
        /\ run.results[1].remarks = "High"

\* the starting monthly investment, the investment hike percent and the
\* expected return of a call are non-negative
NonNegativeInvesting(a) ==
    /\ a.start_monthly_investment >= 0
    /\ Le(Zero, a.invest_hike_percent)
    /\ Le(Zero, a.expected_return)

\* in every year of the run the cumulative value is at least the running
\* invested total, the return percentage is not negative, and the cumulative
\* value is not below that of the year before
CumulativeDominates(run) ==
    \A j \in DOMAIN run.results :
        /\ run.results[j].cumulative_return >= run.results[j].running_invest_total
        /\ Le(Zero, run.results[j].return_percentage)
        /\ j > 1 =>
             run.results[j].cumulative_return >= run.results[j - 1].cumulative_return

\* C18 as stated: in a run with non-negative starting monthly investment,
\* investment hike percent and expected return, every year's cumulative value
\* is at least the running invested total (return_percentage is never
\* negative) and the cumulative value never decreases from year to year.
C18_CumulativeAtLeastInvested ==
    /\ \A run \in Runs : NonNegativeInvesting(run.args) => CumulativeDominates(run)
    /\ (pc = "loop" /\ NonNegativeInvesting(frame.args)) =>
         Le(frame.running_invest_total, frame.cumulative_return)

\* C18 amended: the same, for a projector whose monthly investment cap is
\* non-negative as well.
C18_CumulativeAtLeastInvestedNonNegativeCap ==
    Le(Zero, projector.invest_monthly_cap) => C18_CumulativeAtLeastInvested

\* C18 witness: under a non-negative cap a run with a positive investment and
\* a positive return has records of two years, the cumulative value above the
\* invested total and growing.
C18_Witness ==
    /\ Le(Zero, projector.invest_monthly_cap)
    /\ \E run \in Runs :
        /\ NonNegativeInvesting(run.args)
        /\ Lt(Zero, run.args.expected_return)
        /\ Len(run.results) >= 2
        /\ run.results[1].cumulative_return > run.results[1].running_invest_total
        /\ run.results[2].cumulative_return > run.results[1].cumulative_return
        /\ Lt(Zero, run.results[2].return_percentage)

\* C19: with the default tax configuration the tax of a non-negative gross
\* yearly income lies between 0 and that income, and in every record of a run
\* with a non-negative gross the net yearly salary is non-negative and not
\* above the gross salary of the year.
C19_TaxWithinGross ==
    tax_calc = TaxCalculatorInit(None, None, None) =>
        /\ (pc = "loop" /\ Le(Zero, frame.gross)) =>
             /\ Le(Zero, compute_tax(tax_calc, frame.gross))
             /\ Le(compute_tax(tax_calc, frame.gross), frame.gross)
        /\ \A run \in Runs : \A j \in DOMAIN run.results :
             run.results[j].gross_yearly >= 0 =>
               /\ 0 <= run.results[j].tax_yearly
               /\ run.results[j].tax_yearly <= run.results[j].gross_yearly
               /\ 0 <= run.results[j].net_salary_yearly
               /\ run.results[j].net_salary_yearly <= run.results[j].gross_yearly

\* C19 witness: under the default tax configuration a run has records of two
\* years with a positive tax, the net salary strictly between 0 and the gross.
C19_Witness ==
    /\ tax_calc = TaxCalculatorInit(None, None, None)
    /\ \E run \in Runs :
        /\ Len(run.results) >= 2
        /\ run.results[2].tax_yearly > 0
        /\ run.results[2].net_salary_yearly > 0
        /\ run.results[2].net_salary_yearly < run.results[2].gross_yearly

\* C13: with non-negative salary hike rate and investment hike percent, from
\* one year of a run to the next the gross salary becomes
\* min(gross x (1 + rate), configured salary cap) and the monthly investment
\* min(investment x (1 + percent/100), configured investment cap), and a value
\* that equals its configured cap stays at the cap.
C13_CapsAbsorbing ==
    [][ ( /\ pc = "loop"
          /\ pc' = "loop"
          /\ frame'.y = frame.y + 1
          /\ InRange(frame'.y, frame.args.years)
          /\ Le(Zero, projector.salary_hike_rate)
          /\ Le(Zero, frame.args.invest_hike_percent) )
        => /\ frame'.gross =
                Min(Mul(frame.gross, Add(One, projector.salary_hike_rate)),
                    projector.salary_cap)
           /\ frame'.monthly_invest =
                Min(Mul(frame.monthly_invest,
                        Add(One, Div(frame.args.invest_hike_percent, R(100)))),
                    projector.invest_monthly_cap)
           /\ frame.gross = projector.salary_cap
                => frame'.gross = projector.salary_cap
           /\ frame.monthly_invest = projector.invest_monthly_cap
                => frame'.monthly_invest = projector.invest_monthly_cap
      ]_vars

-----------------------------------------------------------------------------
(* Properties of compute_tax, checked under SpecTax *)

\* C4: for every gross yearly income less than or equal to the standard
\* deduction (negative incomes included) compute_tax returns exactly 0,
\* whatever the slabs and the cess rate are.
C4_NoTaxUpToDeduction ==
    \A c \in DOMAIN taxCalls :
        Le(taxCalls[c].gross_yearly, tax_calc.std_deduction) =>
            taxCalls[c].tax = Zero

\* C4 witness: compute_tax has returned 0 for an income equal to the deduction
\* and for a negative income, under slabs whose first rate is not 0.
C4_Witness ==
    /\ Len(taxCalls) = 2
    /\ tax_calc.slabs = SmallSlabs
    /\ taxCalls[1].gross_yearly = tax_calc.std_deduction
    /\ Lt(taxCalls[2].gross_yearly, Zero)
    /\ taxCalls[1].tax = Zero
    /\ taxCalls[2].tax = Zero

NonNegativeRates ==
    /\ \A i \in DOMAIN tax_calc.slabs : Le(Zero, tax_calc.slabs[i].rate)
    /\ Le(Zero, tax_calc.cess_rate)

\* C5: with non-negative slab rates and a non-negative cess rate, compute_tax
\* is monotonic: gross1 < gross2 implies compute_tax(gross1) <= compute_tax(gross2).
C5_TaxMonotone ==
    NonNegativeRates =>
        \A c1, c2 \in DOMAIN taxCalls :
            Lt(taxCalls[c1].gross_yearly, taxCalls[c2].gross_yearly) =>
                Le(taxCalls[c1].tax, taxCalls[c2].tax)

\* C5 witness: under the default configuration, a higher income has been taxed
\* strictly more than a lower one, both above the first slab.
C5_Witness ==
    /\ tax_calc = TaxCalculatorInit(None, None, None)
    /\ Len(taxCalls) = 2
    /\ Lt(taxCalls[1].gross_yearly, taxCalls[2].gross_yearly)
    /\ Lt(Zero, taxCalls[1].tax)
    /\ Lt(taxCalls[1].tax, taxCalls[2].tax)

\* the sum of the widths of the first k slabs
RECURSIVE PrefixWidth(_, _)
PrefixWidth(slabs, k) ==
    IF k = 0 THEN Zero ELSE Add(PrefixWidth(slabs, k - 1), slabs[k].slab_amount)

\* the sum of width * rate over the first k slabs
RECURSIVE PrefixTax(_, _)
PrefixTax(slabs, k) ==
    IF k = 0 THEN Zero
    ELSE Add(PrefixTax(slabs, k - 1), Mul(slabs[k].slab_amount, slabs[k].rate))

\* C6: for a gross income whose taxable base (gross minus standard deduction)
\* equals the sum of the widths of the first k slabs, compute_tax returns the
\* sum of width * rate over those k slabs, times (1 + cess rate).
C6_BoundaryTax ==
    \A c \in DOMAIN taxCalls : \A k \in 0 .. Len(tax_calc.slabs) :
        ( /\ \A i \in 1 .. k : ~IsInf(tax_calc.slabs[i].slab_amount)
          /\ Sub(taxCalls[c].gross_yearly, tax_calc.std_deduction)
               = PrefixWidth(tax_calc.slabs, k) ) =>
            taxCalls[c].tax
              = Mul(PrefixTax(tax_calc.slabs, k), Add(One, tax_calc.cess_rate))

\* the reference progressive allocation: each slab in order is charged on
\* min(remaining base, width) until the base is exhausted
RECURSIVE ReferenceWalk(_, _, _, _)
ReferenceWalk(slabs, i, remaining, acc) ==
    IF i > Len(slabs) \/ Le(remaining, Zero) THEN acc
    ELSE LET part == Min(remaining, slabs[i].slab_amount)
         IN  ReferenceWalk(slabs, i + 1, Sub(remaining, part),
                           Add(acc, Mul(part, slabs[i].rate)))

ReferenceTax(self, gross_yearly) ==
    LET base == Max(Zero, Sub(gross_yearly, self.std_deduction))
    IN  Mul(ReferenceWalk(self.slabs, 1, base, Zero), Add(One, self.cess_rate))

\* C7: for every gross income compute_tax equals the reference progressive
\* allocation with the cess applied once on the total; with the default
\* configuration compute_tax(1000000) = 36400.
C7_MatchesReference ==
    \A c \in DOMAIN taxCalls :
        /\ taxCalls[c].tax = ReferenceTax(tax_calc, taxCalls[c].gross_yearly)
        /\ ( /\ tax_calc = TaxCalculatorInit(None, None, None)
             /\ taxCalls[c].gross_yearly = R(1000000) ) =>
                taxCalls[c].tax = R(36400)

\* the last slab is unbounded
FinalSlabUnbounded ==
    /\ tax_calc.slabs # << >>
    /\ IsInf(tax_calc.slabs[Len(tax_calc.slabs)].slab_amount)

\* C14, finite last slab: a gross income whose taxable base is at least the
\* sum of all slab widths gets the tax of the base equal to that sum.
C14_FiniteTableSaturates ==
    ~FinalSlabUnbounded =>
        LET total == PrefixWidth(tax_calc.slabs, Len(tax_calc.slabs))
        IN  \A c \in DOMAIN taxCalls :
              Le(total, TaxableIncome(tax_calc, taxCalls[c].gross_yearly)) =>
                taxCalls[c].tax
                  = compute_tax(tax_calc, Add(tax_calc.std_deduction, total))

\* C14, unbounded last slab: the amounts taken over the slabs sum to the
\* whole taxable base.
C14_UnboundedTableTakesAll ==
    FinalSlabUnbounded =>
        \A c \in DOMAIN taxCalls :
            taxCalls[c].taken = TaxableIncome(tax_calc, taxCalls[c].gross_yearly)

\* C14: with a finite last slab compute_tax leaves the income beyond the sum of
\* the slab widths untaxed (the tax is that of a base equal to the sum), and
\* with an unbounded last slab the amounts taken over the slabs sum to the
\* whole taxable base.
C14_FiniteAndUnboundedTables ==
    C14_FiniteTableSaturates /\ C14_UnboundedTableTakesAll

\* the slabs have no slab of width 0
NoZeroWidthSlab ==
    \A i \in DOMAIN tax_calc.slabs : tax_calc.slabs[i].slab_amount # Zero

\* C6 and C7 hold of the calculators without a slab of width 0
C6_C7_PositiveWidths == NoZeroWidthSlab => C6_BoundaryTax /\ C7_MatchesReference

====
